---- MODULE Spec2Model ----
(***************************************************************************)
(* The Strava MCP server: StravaAuth (src/auth.ts, held here as            *)
(* src/unnamed/part_002), the OAuth token store run by concurrent async    *)
(* callers on one JavaScript event loop; StravaClient.request              *)
(* (src/strava-client.ts), which asks it for a token before every API      *)
(* call; and the tool catalog and request handlers of src/index.ts.        *)
(* Every stretch of code between two awaits is one atomic action; the      *)
(* token endpoint, the remote API and the clock are the environment.       *)
(***************************************************************************)
EXTENDS Integers, FiniteSets, Sequences, TLC

\* ------------------------------------------------------------------ bounds
MaxCalls == 2       \* async call chains that may overlap
MaxTime  == 1       \* the clock runs 0..MaxTime (seconds)
MaxIssue == 2       \* successful responses the token endpoint gives

\* ------------------------------------------------------- program constants
bufferTime == 300   \* getValidAccessToken: const bufferTime = 300

Calls    == 1..MaxCalls
\* Token strings, as numbers.  The endpoint's n-th success issues the fresh
\* pair access token 2n, refresh token 2n+1; the pair loaded from the
\* environment and given to setTokens is access token 0, refresh token 1.
IssuedAccess(n)  == 2 * n
IssuedRefresh(n) == 2 * n + 1
SeedAccess  == {0}
SeedRefresh == {1}
\* expiresAt values around the refresh threshold of every clock value:
\* already inside the buffer, exactly on it, and beyond it.
ExpiresValues == {bufferTime + k : k \in 0..(MaxTime + 1)}
\* expires_at values of token responses: inside the buffer at every clock
\* value, and beyond it at every clock value.
ResponseExpires == {bufferTime, bufferTime + MaxTime + 1}
Codes    == {"abc123"}

VARIABLES
    clientId,      \* StravaAuth.clientId
    clientSecret,  \* StravaAuth.clientSecret
    tokens,        \* StravaAuth.tokens (NoTokens models null)
    calls,         \* per call chain: the operation, its position, its locals
    now,           \* Math.floor(Date.now() / 1000)
    issued,        \* token endpoint: successful responses given so far
    lastWrite,     \* history: the (access, refresh, expires) triple of the
                   \* response or setTokens call that wrote tokens last
    requests,      \* per call chain: the locals of StravaClient.request
    server,        \* index.ts: allTools and the request handler that runs
    refreshHistory, \* history: "failed" once a refresh has failed, in the
                   \* behaviours that keep it (those that start at "none")
    process,       \* index.ts: process.env, how far the module has run,
                   \* and the exit code
    tokenError,    \* a non-2xx token response and the error made of it
    setup          \* the setup script: its locals, the .env file, its exit

\* what the server process never touches
scriptVars == <<tokenError, setup>>

vars == <<clientId, clientSecret, tokens, calls, now, issued, lastWrite,
          requests, server, refreshHistory, process, tokenError, setup>>

\* ------------------------------------------------------------ value shapes
\* private tokens: StravaTokens | null = null
NoTokens == [accessToken |-> -1, refreshToken |-> -1, expiresAt |-> -1]

NoReq  == [grant_type |-> "none", client_id |-> "", client_secret |-> "",
           code |-> "", refresh_token |-> -1]
NoResp == [status |-> 0, access_token |-> -1, refresh_token |-> -1,
           expires_at |-> -1]
NoWrite == [access_token |-> -1, refresh_token |-> -1, expires_at |-> -1]

\* A call chain that is not running.
IdleCall == [op |-> "none", pc |-> "idle", callTime |-> -1, req |-> NoReq,
             resp |-> NoResp, sent |-> 0, kind |-> "none", value |-> NoTokens,
             retToken |-> -1, flag |-> FALSE]

\* No header, and the headers of a request to the remote API
NoHeader == [scheme |-> "none", token |-> -1]

\* StravaClient.request not running in this call chain.
IdleRequest == [pc |-> "idle", tokenCalls |-> 0, accessToken |-> -1,
                apiSent |-> 0, Authorization |-> NoHeader, status |-> 0,
                kind |-> "none"]

\* index.ts before `const allTools = {...}`, no handler running.
NoServer == [allTools |-> <<>>, built |-> FALSE, handler |-> "none",
             pc |-> "idle", toolName |-> "", arguments |-> "", kind |-> "none",
             tools |-> <<>>]

\* The environment of a process that was given nothing ("" and -2 stand for
\* a variable that is not set), and index.ts not run.
NoEnv == [STRAVA_CLIENT_ID |-> "", STRAVA_CLIENT_SECRET |-> "",
          STRAVA_ACCESS_TOKEN |-> -2, STRAVA_REFRESH_TOKEN |-> -2,
          STRAVA_EXPIRES_AT |-> ""]
NoProcess == [env |-> NoEnv, pc |-> "none", exitCode |-> -1]

\* No non-2xx response under study; the setup script not run.
NoTokenError == [pc |-> "none"]
NoSetup == [pc |-> "none"]

\* JavaScript's undefined: a property the parsed JSON body does not have
Undefined == -2

\* response.ok
ResponseOk(resp) == resp.status >= 200 /\ resp.status <= 299

\* mutant: the test turned round
hasTokens_Negated == tokens = NoTokens

\* hasTokens(): this.tokens !== null
hasTokens == tokens # NoTokens

\* ------------------------------------------------------------ construction
Init ==
    /\ clientId = "client-id"
    /\ clientSecret = "client-secret"
    /\ tokens = NoTokens
    /\ calls = [c \in Calls |-> IdleCall]
    /\ now = 0
    /\ issued = 0
    /\ lastWrite = NoWrite
    /\ requests = [c \in Calls |-> IdleRequest]
    /\ server = NoServer
    /\ refreshHistory = "off"
    /\ process = NoProcess
    /\ tokenError = NoTokenError
    /\ setup = NoSetup

\* A settled promise is taken by its caller before anything else runs (the
\* step Finish): nothing reads a result but its caller.
NoneSettled == \A c \in Calls : calls[c].pc # "done"

\* -------------------------------------------------------------- setTokens
\* mutant: an installed Credential is not overwritten
SetTokens_OnlyIfEmpty(accessToken, refreshToken, expiresAt) ==
    /\ NoneSettled
    /\ tokens' = IF tokens = NoTokens
                 THEN [accessToken |-> accessToken, refreshToken |-> refreshToken,
                       expiresAt |-> expiresAt]
                 ELSE tokens
    /\ lastWrite' = [access_token |-> accessToken, refresh_token |-> refreshToken,
                     expires_at |-> expiresAt]
    /\ UNCHANGED <<scriptVars, process, refreshHistory, server, requests, clientId, clientSecret, calls, now, issued>>

\* setTokens(accessToken, refreshToken, expiresAt): this.tokens = {...}
SetTokens(accessToken, refreshToken, expiresAt) ==
    /\ NoneSettled
    /\ tokens' = [accessToken |-> accessToken, refreshToken |-> refreshToken,
                  expiresAt |-> expiresAt]
    /\ lastWrite' = [access_token |-> accessToken, refresh_token |-> refreshToken,
                     expires_at |-> expiresAt]
    /\ UNCHANGED <<scriptVars, process, refreshHistory, server, requests, clientId, clientSecret, calls, now, issued>>

\* Call chains are interchangeable: a new call takes the lowest free one.
Free(c) ==
    /\ NoneSettled
    /\ calls[c].pc = "idle"
    /\ \A d \in Calls : d < c => calls[d].pc # "idle"

\* ---------------------------------------------------------- exchangeToken
\* body of the POST that exchangeToken sends
ExchangeRequest(code) ==
    [grant_type |-> "authorization_code", client_id |-> clientId,
     client_secret |-> clientSecret, code |-> code, refresh_token |-> -1]

\* exchangeToken up to its first await: the request is sent, whatever the store holds
ExchangeCall(c, code) ==
    /\ Free(c)
    /\ calls' = [calls EXCEPT ![c] =
                   [IdleCall EXCEPT !.op = "exchange", !.pc = "fetch",
                                    !.req = ExchangeRequest(code), !.sent = 1]]
    /\ UNCHANGED <<scriptVars, process, refreshHistory, server, requests, clientId, clientSecret, tokens, now, issued, lastWrite>>

\* this.tokens = { accessToken: data.access_token, ... } in exchangeToken
TokensFromExchange(data) ==
    [accessToken |-> data.access_token, refreshToken |-> data.refresh_token,
     expiresAt |-> data.expires_at]

\* mutant: the failure path also drops the installed Credential
ExchangeFailed_ClearsTokens(c) ==
    /\ calls' = [calls EXCEPT ![c] =
                   [IdleCall EXCEPT !.op = "exchange", !.pc = "done",
                                    !.sent = calls[c].sent,
                                    !.kind = "ExchangeError"]]
    /\ tokens' = NoTokens
    /\ lastWrite' = NoWrite

\* if (!response.ok) { ...; throw new Error(`Failed to exchange token: ...`) }
ExchangeFailed(c) ==
    /\ calls' = [calls EXCEPT ![c] =
                   [IdleCall EXCEPT !.op = "exchange", !.pc = "done",
                                    !.sent = calls[c].sent,
                                    !.kind = "ExchangeError"]]
    /\ UNCHANGED <<tokens, lastWrite>>

\* mutant: the response is installed only into an empty store
ExchangeSucceeded_KeepsPrior(c) ==
    /\ tokens' = IF tokens = NoTokens THEN TokensFromExchange(calls[c].resp) ELSE tokens
    /\ lastWrite' = IF tokens = NoTokens
                    THEN [access_token |-> calls[c].resp.access_token,
                          refresh_token |-> calls[c].resp.refresh_token,
                          expires_at |-> calls[c].resp.expires_at]
                    ELSE lastWrite
    /\ calls' = [calls EXCEPT ![c] =
                   [IdleCall EXCEPT !.op = "exchange", !.pc = "done",
                                    !.sent = calls[c].sent,
                                    !.kind = "credential", !.value = tokens']]

\* data = await response.json(); this.tokens = {...}; return this.tokens
ExchangeSucceeded(c) ==
    /\ tokens' = TokensFromExchange(calls[c].resp)
    /\ lastWrite' = [access_token |-> calls[c].resp.access_token,
                     refresh_token |-> calls[c].resp.refresh_token,
                     expires_at |-> calls[c].resp.expires_at]
    /\ calls' = [calls EXCEPT ![c] =
                   [IdleCall EXCEPT !.op = "exchange", !.pc = "done",
                                    !.sent = calls[c].sent,
                                    !.kind = "credential", !.value = tokens']]

\* exchangeToken from the arrival of the response to its return or throw
ExchangeResume(c) ==
    /\ NoneSettled
    /\ calls[c].pc = "resp"
    /\ calls[c].op = "exchange"
    /\ IF ResponseOk(calls[c].resp) THEN ExchangeSucceeded(c) ELSE ExchangeFailed(c)
    /\ UNCHANGED <<scriptVars, process, refreshHistory, server, requests, clientId, clientSecret, now, issued>>

\* ----------------------------------------------------- refreshAccessToken
\* mutant: the access token is sent in place of the refresh token
RefreshRequest_AccessToken ==
    [grant_type |-> "refresh_token", client_id |-> clientId,
     client_secret |-> clientSecret, code |-> "",
     refresh_token |-> tokens.accessToken]

\* body of the POST that refreshAccessToken sends
RefreshRequest ==
    [grant_type |-> "refresh_token", client_id |-> clientId,
     client_secret |-> clientSecret, code |-> "",
     refresh_token |-> tokens.refreshToken]

\* mutant: no `if (!this.tokens) throw`; the body reads this.tokens?.refreshToken
RefreshStart_NoTokensCheck(op, callTime) ==
    [IdleCall EXCEPT !.op = op, !.pc = "fetch", !.callTime = callTime,
                     !.req = RefreshRequest, !.sent = 1]

\* refreshAccessToken up to its first await, run for operation op entered at
\* callTime: the call chain's next position.
RefreshStart(op, callTime) ==
    IF tokens = NoTokens
    THEN [IdleCall EXCEPT !.op = op, !.pc = "done", !.kind = "NoTokensError"]
    ELSE [IdleCall EXCEPT !.op = op, !.pc = "fetch", !.callTime = callTime,
                          !.req = RefreshRequest, !.sent = 1]

\* a direct call of refreshAccessToken
RefreshCall(c) ==
    /\ Free(c)
    /\ calls' = [calls EXCEPT ![c] = RefreshStart("refresh", -1)]
    /\ UNCHANGED <<scriptVars, process, refreshHistory, server, requests, clientId, clientSecret, tokens, now, issued, lastWrite>>

\* mutant: a partial update, the old refresh token is kept
TokensFromRefresh_KeepsRefreshToken(data) ==
    [accessToken |-> data.access_token, refreshToken |-> tokens.refreshToken,
     expiresAt |-> data.expires_at]

\* this.tokens = { accessToken: data.access_token, ... } in refreshAccessToken
TokensFromRefresh(data) ==
    [accessToken |-> data.access_token, refreshToken |-> data.refresh_token,
     expiresAt |-> data.expires_at]

\* mutant: a failed refresh logs the user out
RefreshFailed_ClearsTokens(c) ==
    /\ calls' = [calls EXCEPT ![c] =
                   [IdleCall EXCEPT !.op = calls[c].op, !.pc = "done",
                                    !.sent = calls[c].sent,
                                    !.kind = "RefreshError"]]
    /\ tokens' = NoTokens
    /\ lastWrite' = NoWrite

\* mutant: a failed refresh is tried again
RefreshFailed_Retries(c) ==
    /\ calls' = [calls EXCEPT ![c].pc = "fetch", ![c].req = RefreshRequest,
                               ![c].resp = NoResp,
                               ![c].sent = calls[c].sent + 1]
    /\ UNCHANGED <<tokens, lastWrite>>

\* if (!response.ok) { ...; throw new Error(`Failed to refresh token: ...`) }
\* (inside getValidAccessToken the rejection passes through its await)
RefreshFailed(c) ==
    /\ calls' = [calls EXCEPT ![c] =
                   [IdleCall EXCEPT !.op = calls[c].op, !.pc = "done",
                                    !.sent = calls[c].sent,
                                    !.kind = "RefreshError"]]
    /\ UNCHANGED <<tokens, lastWrite>>

\* mutant: the response is returned but never stored in this.tokens
RefreshSucceeded_NoInstall(c) ==
    /\ UNCHANGED <<tokens, lastWrite>>
    /\ calls' = [calls EXCEPT ![c] =
                   IF calls[c].op = "refresh"
                   THEN [IdleCall EXCEPT !.op = "refresh", !.pc = "done",
                                         !.sent = calls[c].sent,
                                         !.kind = "credential",
                                         !.value = TokensFromRefresh(calls[c].resp)]
                   ELSE [calls[c] EXCEPT !.pc = "ret"]]

\* data = await response.json(); this.tokens = {...}; return this.tokens.
\* Called from getValidAccessToken, the caller resumes in a later microtask.
RefreshSucceeded(c) ==
    /\ tokens' = TokensFromRefresh(calls[c].resp)
    /\ lastWrite' = [access_token |-> calls[c].resp.access_token,
                     refresh_token |-> calls[c].resp.refresh_token,
                     expires_at |-> calls[c].resp.expires_at]
    /\ calls' = [calls EXCEPT ![c] =
                   IF calls[c].op = "refresh"
                   THEN [IdleCall EXCEPT !.op = "refresh", !.pc = "done",
                                         !.sent = calls[c].sent,
                                         !.kind = "credential", !.value = tokens']
                   ELSE [calls[c] EXCEPT !.pc = "ret"]]

\* refreshAccessToken from the arrival of the response to its return or throw
RefreshResume(c) ==
    /\ NoneSettled
    /\ calls[c].pc = "resp"
    /\ calls[c].op \in {"refresh", "getValid"}
    /\ IF ResponseOk(calls[c].resp) THEN RefreshSucceeded(c) ELSE RefreshFailed(c)
    /\ refreshHistory' = IF refreshHistory = "none" /\ ~ResponseOk(calls[c].resp)
                         THEN "failed" ELSE refreshHistory
    /\ UNCHANGED <<scriptVars, process, server, requests, clientId, clientSecret, now, issued>>

\* ---------------------------------------------------- getValidAccessToken
\* mutant: `<` for `<=`, a token on the boundary is not refreshed
NeedsRefresh_Strict ==
    tokens.expiresAt # Undefined /\ tokens.expiresAt < now + bufferTime
\* mutant: the comparison turned round
NeedsRefresh_Flipped ==
    tokens.expiresAt # Undefined /\ tokens.expiresAt >= now + bufferTime

\* this.tokens.expiresAt <= now + bufferTime (false of undefined, which
\* compares as NaN)
NeedsRefresh ==
    tokens.expiresAt # Undefined /\ tokens.expiresAt <= now + bufferTime

\* return this.tokens.accessToken
ReturnToken(c) ==
    [IdleCall EXCEPT !.op = "getValid", !.pc = "done", !.sent = calls[c].sent,
                     !.kind = "token", !.retToken = tokens.accessToken]

\* mutant: no `if (!this.tokens) throw`; this.tokens.expiresAt of null is a TypeError
GetValidStart_NoTokensCheck(c) ==
    IF tokens = NoTokens
    THEN [IdleCall EXCEPT !.op = "getValid", !.pc = "done", !.kind = "TypeError"]
    ELSE IF NeedsRefresh THEN RefreshStart("getValid", now)
                         ELSE ReturnToken(c)

\* getValidAccessToken up to its await (or, with no refresh, to its return)
GetValidStart(c) ==
    IF tokens = NoTokens
    THEN [IdleCall EXCEPT !.op = "getValid", !.pc = "done",
                          !.kind = "NoTokensError"]
    ELSE IF NeedsRefresh THEN RefreshStart("getValid", now)
                         ELSE ReturnToken(c)

GetValidCall(c) ==
    /\ Free(c)
    /\ calls' = [calls EXCEPT ![c] = GetValidStart(c)]
    /\ UNCHANGED <<scriptVars, process, refreshHistory, server, requests, clientId, clientSecret, tokens, now, issued, lastWrite>>

\* getValidAccessToken after `await this.refreshAccessToken()` has resolved
GetValidResume(c) ==
    /\ NoneSettled
    /\ calls[c].pc = "ret"
    /\ calls' = [calls EXCEPT ![c] = ReturnToken(c)]
    /\ UNCHANGED <<scriptVars, process, refreshHistory, server, requests, clientId, clientSecret, tokens, now, issued, lastWrite>>

\* --------------------------------------------------- StravaClient.request
\* request up to `await this.auth.getValidAccessToken()`: getValidAccessToken
\* runs in the call chain up to its own await or return.
RequestCall(c) ==
    /\ Free(c)
    /\ requests[c].pc = "idle"
    /\ calls' = [calls EXCEPT ![c] = GetValidStart(c)]
    /\ requests' = [requests EXCEPT ![c] =
                      [IdleRequest EXCEPT !.pc = "token", !.tokenCalls = 1]]
    /\ UNCHANGED <<scriptVars, process, refreshHistory, server, clientId, clientSecret, tokens, now, issued, lastWrite>>

\* mutant: the refresh token is attached
AuthorizationHeader_RefreshToken(accessToken) ==
    [scheme |-> "Bearer", token |-> tokens.refreshToken]

\* 'Authorization': `Bearer ${accessToken}` (no caller passes options.headers)
AuthorizationHeader(accessToken) ==
    [scheme |-> "Bearer", token |-> accessToken]

\* const accessToken = <the token returned>; await fetch(url, {headers...})
RequestSend(c) ==
    /\ calls' = [calls EXCEPT ![c] =
                   [IdleCall EXCEPT !.op = "request", !.pc = "api"]]
    /\ requests' = [requests EXCEPT ![c] =
                      [@ EXCEPT !.pc = "api",
                                !.accessToken = calls[c].retToken,
                                !.apiSent = @ + 1,
                                !.Authorization =
                                    AuthorizationHeader(calls[c].retToken)]]

\* mutant: the rejection is swallowed and the stored token is sent
RequestRejected_SendsStored(c) ==
    /\ calls' = [calls EXCEPT ![c] =
                   [IdleCall EXCEPT !.op = "request", !.pc = "api"]]
    /\ requests' = [requests EXCEPT ![c] =
                      [@ EXCEPT !.pc = "api",
                                !.accessToken = tokens.accessToken,
                                !.apiSent = @ + 1,
                                !.Authorization =
                                    AuthorizationHeader(tokens.accessToken)]]

\* the rejection of getValidAccessToken passes through the await: request
\* rejects with the same error, its fetch is never reached
RequestRejected(c) ==
    /\ calls' = [calls EXCEPT ![c] =
                   [IdleCall EXCEPT !.op = "request", !.pc = "done",
                                    !.kind = calls[c].kind]]
    /\ requests' = [requests EXCEPT ![c] =
                      [@ EXCEPT !.pc = "done", !.kind = calls[c].kind]]

\* request resumes when the promise of getValidAccessToken has settled
RequestTokenResume(c) ==
    /\ calls[c].pc = "done"
    /\ calls[c].op = "getValid"
    /\ requests[c].pc = "token"
    /\ IF calls[c].kind = "token" THEN RequestSend(c) ELSE RequestRejected(c)
    /\ UNCHANGED <<scriptVars, process, refreshHistory, server, clientId, clientSecret, tokens, now, issued, lastWrite>>

\* mutant: a non-2xx API response is answered by sending the request again
RequestResume_RetryOnError(c) ==
    /\ NoneSettled
    /\ calls[c].pc = "apiResp"
    /\ calls' = [calls EXCEPT ![c].pc = IF ResponseOk(requests[c])
                                         THEN "done" ELSE "api",
                               ![c].kind = IF ResponseOk(requests[c])
                                           THEN "json" ELSE "none"]
    /\ requests' = [requests EXCEPT
                      ![c].pc = IF ResponseOk(requests[c]) THEN "done"
                                ELSE "api",
                      ![c].apiSent = IF ResponseOk(requests[c]) THEN @
                                     ELSE @ + 1,
                      ![c].kind = IF ResponseOk(requests[c])
                                  THEN "json" ELSE "none"]
    /\ UNCHANGED <<scriptVars, process, refreshHistory, server, clientId, clientSecret, tokens, now, issued, lastWrite>>

\* request from the arrival of the API response to its return or throw:
\* if (!response.ok) throw new Error(`Strava API error: ...`); return json
RequestResume(c) ==
    /\ NoneSettled
    /\ calls[c].pc = "apiResp"
    /\ calls' = [calls EXCEPT ![c].pc = "done",
                               ![c].kind = IF ResponseOk(requests[c])
                                           THEN "json" ELSE "ApiError"]
    /\ requests' = [requests EXCEPT ![c].pc = "done",
                                     ![c].kind = IF ResponseOk(requests[c])
                                                 THEN "json" ELSE "ApiError"]
    /\ UNCHANGED <<scriptVars, process, refreshHistory, server, clientId, clientSecret, tokens, now, issued, lastWrite>>

\* the tool handler takes the result of request; the call chain ends
RequestFinish(c) ==
    /\ calls[c].pc = "done"
    /\ calls[c].op = "request"
    /\ calls' = [calls EXCEPT ![c] = IdleCall]
    /\ requests' = [requests EXCEPT ![c] = IdleRequest]
    /\ UNCHANGED <<scriptVars, process, refreshHistory, server, clientId, clientSecret, tokens, now, issued, lastWrite>>

\* -------------------------------------------------------------- hasTokens
\* a call of hasTokens(): synchronous, its result is there in the same step
HasTokensCall(c) ==
    /\ Free(c)
    /\ calls' = [calls EXCEPT ![c] =
                   [IdleCall EXCEPT !.op = "hasTokens", !.pc = "done",
                                    !.kind = "boolean", !.flag = hasTokens]]
    /\ UNCHANGED <<scriptVars, process, refreshHistory, server, requests, clientId, clientSecret, tokens, now, issued, lastWrite>>

\* ----------------------------------------------------------- environment
\* The token endpoint answers the request of call c: a 2xx response with a
\* fresh token pair and any expires_at, or a non-2xx response.
ServerReply(c) ==
    /\ NoneSettled
    /\ calls[c].pc = "fetch"
    /\ \/ /\ issued < MaxIssue
          /\ issued' = issued + 1
          /\ \E e \in ResponseExpires :
               calls' = [calls EXCEPT ![c].pc = "resp", ![c].req = NoReq,
                           ![c].resp = [status |-> 200,
                                        access_token |-> IssuedAccess(issued + 1),
                                        refresh_token |-> IssuedRefresh(issued + 1),
                                        expires_at |-> e]]
       \/ /\ issued' = issued
          /\ calls' = [calls EXCEPT ![c].pc = "resp", ![c].req = NoReq,
                         ![c].resp = [NoResp EXCEPT !.status = 401]]
    /\ UNCHANGED <<scriptVars, process, refreshHistory, server, requests, clientId, clientSecret, tokens, now, lastWrite>>

\* The fields a 2xx body may carry, and the value data.<field> reads.
ResponseFields == {"access_token", "refresh_token", "expires_at"}
FieldOf(present, field, v) == IF field \in present THEN v ELSE Undefined

\* The token endpoint answers 2xx with a JSON body that lacks some of the
\* three fields: `(await response.json()) as StravaTokenResponse` is a cast,
\* nothing checks the body.
ServerReplyPartial(c) ==
    /\ NoneSettled
    /\ calls[c].pc = "fetch"
    /\ issued < MaxIssue
    /\ issued' = issued + 1
    /\ \E present \in (SUBSET ResponseFields) \ {ResponseFields},
          e \in ResponseExpires :
          calls' = [calls EXCEPT ![c].pc = "resp", ![c].req = NoReq,
                      ![c].resp =
                        [status |-> 200,
                         access_token |->
                           FieldOf(present, "access_token", IssuedAccess(issued + 1)),
                         refresh_token |->
                           FieldOf(present, "refresh_token", IssuedRefresh(issued + 1)),
                         expires_at |-> FieldOf(present, "expires_at", e)]]
    /\ UNCHANGED <<scriptVars, process, refreshHistory, server, requests, clientId, clientSecret, tokens, now, lastWrite>>

\* The remote API answers the request of call chain c, 2xx or not.
ApiReply(c) ==
    /\ NoneSettled
    /\ calls[c].pc = "api"
    /\ \E st \in {200, 401} :
         requests' = [requests EXCEPT ![c].pc = "resp", ![c].status = st]
    /\ calls' = [calls EXCEPT ![c].pc = "apiResp"]
    /\ UNCHANGED <<scriptVars, process, refreshHistory, server, clientId, clientSecret, tokens, now, issued, lastWrite>>

\* The caller takes the settled promise's result; the call chain ends.
Finish(c) ==
    /\ calls[c].pc = "done"
    /\ calls' = [calls EXCEPT ![c] = IdleCall]
    /\ UNCHANGED <<scriptVars, process, refreshHistory, server, requests, clientId, clientSecret, tokens, now, issued, lastWrite>>

\* ------------------------------------------------------------------- clock
\* mutant: a timer refreshes the Credential as it enters the buffer
Tick_BackgroundRefresh ==
    /\ NoneSettled
    /\ now < MaxTime
    /\ now' = now + 1
    /\ calls' = IF /\ tokens # NoTokens
                   /\ tokens.expiresAt <= now + 1 + bufferTime
                   /\ calls[1].pc = "idle"
                THEN [calls EXCEPT ![1] = RefreshStart("refresh", -1)]
                ELSE calls
    /\ UNCHANGED <<scriptVars, process, refreshHistory, server, requests, clientId, clientSecret,
                   tokens, issued, lastWrite>>

Tick ==
    /\ NoneSettled
    /\ now < MaxTime
    /\ now' = now + 1
    /\ UNCHANGED <<scriptVars, process, refreshHistory, server, requests, clientId, clientSecret, tokens, calls, issued, lastWrite>>

Next ==
    \/ \E a \in SeedAccess, r \in SeedRefresh, e \in ExpiresValues : SetTokens(a, r, e)
    \/ \E c \in Calls, code \in Codes : ExchangeCall(c, code)
    \/ \E c \in Calls : ExchangeResume(c)
    \/ \E c \in Calls : RefreshCall(c)
    \/ \E c \in Calls : RefreshResume(c)
    \/ \E c \in Calls : GetValidCall(c)
    \/ \E c \in Calls : GetValidResume(c)
    \/ \E c \in Calls : ServerReply(c)
    \/ \E c \in Calls : Finish(c)
    \/ Tick

Spec == Init /\ [][Next]_vars

\* ------------------------------------------- any body the code accepts
\* The store with a token endpoint whose 2xx bodies need not be complete.
AnyBodyNext ==
    \/ Next
    \/ \E c \in Calls : ServerReplyPartial(c)

AnyBodySpec == Init /\ [][AnyBodyNext]_vars

\* ------------------------------------- an endpoint that rotates tokens
\* The server process as index.ts runs it: setTokens once at startup from the
\* environment, then getValidAccessToken calls only, against a token
\* endpoint that honours a refresh token once and the latest one only.
ServerRefreshToken ==
    IF issued = 0 THEN CHOOSE r \in SeedRefresh : TRUE ELSE IssuedRefresh(issued)

\* The rotating endpoint answers the refresh request of call c: 2xx with a
\* fresh pair when the request presents the refresh token it honours, a
\* non-2xx response when not (or for any other reason).
ServerReplyRotating(c) ==
    /\ NoneSettled
    /\ calls[c].pc = "fetch"
    /\ \/ /\ calls[c].req.refresh_token = ServerRefreshToken
          /\ issued < MaxIssue
          /\ issued' = issued + 1
          /\ \E e \in ResponseExpires :
               calls' = [calls EXCEPT ![c].pc = "resp", ![c].req = NoReq,
                           ![c].resp = [status |-> 200,
                                        access_token |-> IssuedAccess(issued + 1),
                                        refresh_token |-> IssuedRefresh(issued + 1),
                                        expires_at |-> e]]
       \/ /\ issued' = issued
          /\ calls' = [calls EXCEPT ![c].pc = "resp", ![c].req = NoReq,
                         ![c].resp = [NoResp EXCEPT !.status = 400]]
    /\ UNCHANGED <<scriptVars, process, refreshHistory, server, requests, clientId, clientSecret, tokens, now, lastWrite>>

RotateNext ==
    \/ ~hasTokens /\ \E a \in SeedAccess, r \in SeedRefresh, e \in ExpiresValues : SetTokens(a, r, e)
    \/ \E c \in Calls : GetValidCall(c)
    \/ \E c \in Calls : RefreshResume(c)
    \/ \E c \in Calls : GetValidResume(c)
    \/ \E c \in Calls : ServerReplyRotating(c)
    \/ \E c \in Calls : Finish(c)
    \/ Tick

RotateSpec == Init /\ [][RotateNext]_vars

\* ------------------------------------------- the server's API requests
\* The server process as index.ts runs it: setTokens once at startup, then
\* tool handlers whose every API call goes through StravaClient.request.
ClientNext ==
    \/ ~hasTokens /\ \E a \in SeedAccess, r \in SeedRefresh, e \in ExpiresValues : SetTokens(a, r, e)
    \/ \E c \in Calls : RequestCall(c)
    \/ \E c \in Calls : RefreshResume(c)
    \/ \E c \in Calls : GetValidResume(c)
    \/ \E c \in Calls : RequestTokenResume(c)
    \/ \E c \in Calls : RequestResume(c)
    \/ \E c \in Calls : RequestFinish(c)
    \/ \E c \in Calls : ServerReply(c)
    \/ \E c \in Calls : ApiReply(c)
    \/ Tick

ClientSpec == Init /\ [][ClientNext]_vars

\* ------------------------------------------------ index.ts: the catalog
\* The keys of the object each tool group returns, in source order.
createActivityTools ==
    <<"get_activities", "get_activity", "create_activity", "update_activity",
      "delete_activity", "get_activity_streams", "get_activity_comments",
      "get_activity_kudos">>
createAthleteTools == <<"get_athlete", "get_athlete_stats", "get_athlete_zones">>
createRouteTools == <<"get_routes", "get_route">>
createSegmentTools ==
    <<"get_starred_segments", "get_segment", "get_segment_leaderboard",
      "explore_segments">>
\* mutant: a club tool registered under the name of an athlete tool
createClubTools_DuplicateKey ==
    <<"get_athlete", "get_club", "get_club_members", "get_club_activities">>
createClubTools ==
    <<"get_athlete_clubs", "get_club", "get_club_members", "get_club_activities">>
createGearTools == <<"get_gear">>

\* the groups in the order `const allTools = {...}` spreads them
ToolGroups ==
    <<createActivityTools, createAthleteTools, createRouteTools,
      createSegmentTools, createClubTools, createGearTools>>

\* { ...obj, ...group }: a key the object has keeps its place and takes the
\* new value; a new key is added at the end.
RECURSIVE SpreadInto(_, _, _)
SpreadInto(obj, keys, group) ==
    IF keys = <<>> THEN obj
    ELSE LET entry == [name |-> Head(keys), group |-> group]
             at == {i \in 1..Len(obj) : obj[i].name = Head(keys)}
         IN  SpreadInto(IF at = {} THEN Append(obj, entry)
                        ELSE [i \in 1..Len(obj) |->
                                IF i \in at THEN entry ELSE obj[i]],
                        Tail(keys), group)

\* the object literal of six spreads, the first n of them done
RECURSIVE Merged(_)
Merged(n) ==
    IF n = 0 THEN <<>> ELSE SpreadInto(Merged(n - 1), ToolGroups[n], n)

\* const allTools = { ...createActivityTools(client), ... }
BuildCatalog ==
    /\ ~server.built
    /\ server' = [server EXCEPT !.allTools = Merged(Len(ToolGroups)),
                                 !.built = TRUE]
    /\ UNCHANGED <<scriptVars, process, refreshHistory, clientId, clientSecret, tokens, calls, now, issued,
                   lastWrite, requests>>

\* Object.entries(allTools).map(([name, tool]) => ({name, ...}))
ToolNames == [i \in 1..Len(server.allTools) |-> server.allTools[i].name]

\* the ListTools handler
ListTools ==
    /\ server.built
    /\ server.pc = "idle"
    /\ server' = [server EXCEPT !.handler = "ListTools", !.pc = "done",
                                 !.kind = "tools", !.tools = ToolNames]
    /\ UNCHANGED <<scriptVars, process, refreshHistory, clientId, clientSecret, tokens, calls, now, issued,
                   lastWrite, requests>>

\* Property names every object inherits from Object.prototype.
ObjectPrototypeKeys == {"toString", "constructor"}
\* Names and arguments a tools/call request may carry.
RequestedNames ==
    {server.allTools[i].name : i \in 1..Len(server.allTools)}
      \cup {"no_such_tool"} \cup ObjectPrototypeKeys
\* (request.params.arguments is optional: "undefined" fails every schema)
RequestedArguments == {"valid", "invalid", "undefined"}

\* allTools[toolName]: the own entry, an inherited property, or undefined
Lookup(toolName) ==
    IF \E i \in 1..Len(server.allTools) : server.allTools[i].name = toolName
    THEN "tool"
    ELSE IF toolName \in ObjectPrototypeKeys THEN "inherited" ELSE "undefined"

\* the CallTool handler up to `await tool.handler(validatedArgs)`, or to its
\* throw: unknown tool; inputSchema.parse failing (or inputSchema missing on
\* an inherited property), caught and rethrown as Tool execution failed
CallTool(toolName, arguments) ==
    /\ server.built
    /\ server.pc = "idle"
    /\ server' =
         [server EXCEPT
            !.handler = "CallTool", !.toolName = toolName,
            !.arguments = arguments,
            !.pc = IF Lookup(toolName) = "tool" /\ arguments = "valid"
                   THEN "handler" ELSE "done",
            !.kind = IF Lookup(toolName) = "undefined" THEN "UnknownTool"
                     ELSE IF Lookup(toolName) = "tool" /\ arguments = "valid"
                          THEN "none" ELSE "ToolExecutionFailed"]
    /\ UNCHANGED <<scriptVars, process, refreshHistory, clientId, clientSecret, tokens, calls, now, issued,
                   lastWrite, requests>>

\* the tool's handler settles: its content is returned, its Error is
\* rethrown as Tool execution failed
HandlerSettles ==
    /\ server.pc = "handler"
    /\ \E kind \in {"content", "ToolExecutionFailed"} :
         server' = [server EXCEPT !.pc = "done", !.kind = kind]
    /\ UNCHANGED <<scriptVars, process, refreshHistory, clientId, clientSecret, tokens, calls, now, issued,
                   lastWrite, requests>>

\* the MCP server sends the handler's response
Respond ==
    /\ server.pc = "done"
    /\ server' = [NoServer EXCEPT !.allTools = server.allTools, !.built = TRUE]
    /\ UNCHANGED <<scriptVars, process, refreshHistory, clientId, clientSecret, tokens, calls, now, issued,
                   lastWrite, requests>>

ServerNext ==
    \/ BuildCatalog
    \/ ListTools
    \/ \E toolName \in RequestedNames, arguments \in RequestedArguments :
         CallTool(toolName, arguments)
    \/ HandlerSettles
    \/ Respond

ServerSpec == Init /\ [][ServerNext]_vars

\* ------------------------------------------------- index.ts: startup
\* Values the variables of .env may have.
EnvClientIds == {"", "client-id"}
EnvClientSecrets == {"", "client-secret"}
EnvAccessTokens == SeedAccess \cup {Undefined}
EnvRefreshTokens == SeedRefresh \cup {Undefined}
EnvExpiresAts == {"", "300", "302"}

\* parseInt(process.env.STRAVA_EXPIRES_AT, 10), for the strings above
ParseInt(str) == IF str = "300" THEN 300 ELSE IF str = "302" THEN 302 ELSE Undefined

\* the process is started: dotenv.config has filled process.env
StartInit ==
    /\ clientId = "client-id"
    /\ clientSecret = "client-secret"
    /\ tokens = NoTokens
    /\ calls = [c \in Calls |-> IdleCall]
    /\ now = 0
    /\ issued = 0
    /\ lastWrite = NoWrite
    /\ requests = [c \in Calls |-> IdleRequest]
    /\ server = NoServer
    /\ refreshHistory = "off"
    /\ tokenError = NoTokenError
    /\ setup = NoSetup
    /\ \E id \in EnvClientIds, secret \in EnvClientSecrets,
          a \in EnvAccessTokens, r \in EnvRefreshTokens, e \in EnvExpiresAts :
         process = [env |-> [STRAVA_CLIENT_ID |-> id,
                             STRAVA_CLIENT_SECRET |-> secret,
                             STRAVA_ACCESS_TOKEN |-> a,
                             STRAVA_REFRESH_TOKEN |-> r,
                             STRAVA_EXPIRES_AT |-> e],
                    pc |-> "validate", exitCode |-> -1]

\* requiredEnvVars.filter((key) => !process.env[key])
missingEnvVars ==
    {key \in {"STRAVA_CLIENT_ID", "STRAVA_CLIENT_SECRET"} : process.env[key] = ""}

\* if (missingEnvVars.length > 0) { ...; process.exit(1) }; new StravaAuth(...)
ValidateEnv ==
    /\ process.pc = "validate"
    /\ process' = IF missingEnvVars # {}
                  THEN [process EXCEPT !.pc = "exited", !.exitCode = 1]
                  ELSE [process EXCEPT !.pc = "bootstrap"]
    /\ UNCHANGED <<scriptVars, clientId, clientSecret, tokens, calls, now, issued,
                   lastWrite, requests, server, refreshHistory>>

\* process.env.STRAVA_ACCESS_TOKEN && process.env.STRAVA_REFRESH_TOKEN &&
\* process.env.STRAVA_EXPIRES_AT
HasEnvTokens ==
    /\ process.env.STRAVA_ACCESS_TOKEN # Undefined
    /\ process.env.STRAVA_REFRESH_TOKEN # Undefined
    /\ process.env.STRAVA_EXPIRES_AT # ""

\* the if branch: auth.setTokens(ACCESS_TOKEN, REFRESH_TOKEN, parseInt(EXPIRES_AT, 10))
BootstrapTokens ==
    /\ process.pc = "bootstrap"
    /\ HasEnvTokens
    /\ ~hasTokens
    /\ SetTokens(process.env.STRAVA_ACCESS_TOKEN,
                 process.env.STRAVA_REFRESH_TOKEN,
                 ParseInt(process.env.STRAVA_EXPIRES_AT))

\* the else branch: console.error(...); process.exit(1)
ExitWithoutTokens ==
    /\ process.pc = "bootstrap"
    /\ ~HasEnvTokens
    /\ process' = [process EXCEPT !.pc = "exited", !.exitCode = 1]
    /\ UNCHANGED <<scriptVars, clientId, clientSecret, tokens, calls, now, issued,
                   lastWrite, requests, server, refreshHistory>>

\* main(): await server.connect(transport), once the module has run through
Connect ==
    /\ process.pc = "bootstrap"
    /\ server.built
    /\ process' = [process EXCEPT !.pc = "running"]
    /\ UNCHANGED <<scriptVars, clientId, clientSecret, tokens, calls, now, issued,
                   lastWrite, requests, server, refreshHistory>>

StartNext ==
    \/ ValidateEnv
    \/ BootstrapTokens
    \/ ExitWithoutTokens
    \/ process.pc = "bootstrap" /\ hasTokens /\ BuildCatalog
    \/ Connect

StartSpec == StartInit /\ [][StartNext]_vars

\* ------------------------------------------- error of a non-2xx response
\* exchangeToken and refreshAccessToken share the two lines that turn a
\* non-2xx token response into the error they throw:
\*   const error = await response.json().catch(
\*       () => ({ message: response.statusText }));
\*   throw new Error(`Failed to ... token: ${error.message || response.statusText}`);

\* Non-2xx statuses and status texts (HTTP/2 responses have the empty one).
ErrorStatuses == {400, 401, 500}
StatusTexts == {"", "Bad Request", "Unauthorized"}

\* A parsed JSON value, as far as the two lines look at it.
JsonObject(hasMessage, message) ==
    [type |-> "object", hasMessage |-> hasMessage, message |-> message]
JsonNull == [type |-> "null", hasMessage |-> FALSE, message |-> ""]
JsonString == [type |-> "string", hasMessage |-> FALSE, message |-> ""]

\* Bodies the endpoint or a proxy in front of it may send.
ErrorBodies ==
    { [json |-> FALSE, value |-> JsonNull],            \* an HTML error page
      [json |-> TRUE, value |-> JsonObject(TRUE, "Invalid refresh token")],
      [json |-> TRUE, value |-> JsonObject(TRUE, "Bad Request")],
      [json |-> TRUE, value |-> JsonObject(TRUE, "")],
      [json |-> TRUE, value |-> JsonObject(FALSE, "")],
      [json |-> TRUE, value |-> JsonNull],             \* the text null
      [json |-> TRUE, value |-> JsonString] }          \* the text "oops"

\* the prefix of the template literal
ErrorPrefix(op) == IF op = "exchange" THEN "Failed to exchange token: "
                   ELSE "Failed to refresh token: "

\* a non-2xx response has arrived in exchangeToken or refreshAccessToken
ErrorInit ==
    /\ clientId = "client-id"
    /\ clientSecret = "client-secret"
    /\ tokens = NoTokens
    /\ calls = [c \in Calls |-> IdleCall]
    /\ now = 0
    /\ issued = 0
    /\ lastWrite = NoWrite
    /\ requests = [c \in Calls |-> IdleRequest]
    /\ server = NoServer
    /\ refreshHistory = "off"
    /\ process = NoProcess
    /\ setup = NoSetup
    /\ \E op \in {"exchange", "refresh"}, status \in ErrorStatuses,
          statusText \in StatusTexts, body \in ErrorBodies :
         tokenError = [pc |-> "response", op |-> op, status |-> status,
                       statusText |-> statusText, body |-> body,
                       error |-> JsonNull,
                       thrown |-> [name |-> "none", prefix |-> "",
                                   detail |-> ""]]

\* await response.json().catch(() => ({ message: response.statusText }))
ParseErrorBody ==
    /\ tokenError.pc = "response"
    /\ tokenError' =
         [tokenError EXCEPT
            !.pc = "parsed",
            !.error = IF tokenError.body.json THEN tokenError.body.value
                      ELSE JsonObject(TRUE, tokenError.statusText)]
    /\ UNCHANGED <<setup, process, refreshHistory, server, requests, clientId,
                   clientSecret, tokens, calls, now, issued, lastWrite>>

\* error.message || response.statusText : reading a property of null throws
\* a TypeError; of a string or of an object without the key, is undefined
MessageOrStatusText(error, statusText) ==
    IF error.type = "object" /\ error.hasMessage /\ error.message # ""
    THEN error.message ELSE statusText

\* throw new Error(`Failed to ... token: ${...}`)
ThrowTokenError ==
    /\ tokenError.pc = "parsed"
    /\ tokenError' =
         [tokenError EXCEPT
            !.pc = "thrown",
            !.thrown =
               IF tokenError.error.type = "null"
               THEN [name |-> "TypeError", prefix |-> "",
                     detail |-> "Cannot read properties of null (reading 'message')"]
               ELSE [name |-> "Error", prefix |-> ErrorPrefix(tokenError.op),
                     detail |-> MessageOrStatusText(tokenError.error,
                                                    tokenError.statusText)]]
    /\ UNCHANGED <<setup, process, refreshHistory, server, requests, clientId,
                   clientSecret, tokens, calls, now, issued, lastWrite>>

ErrorNext == ParseErrorBody \/ ThrowTokenError

ErrorSpec == ErrorInit /\ [][ErrorNext]_vars

\* ---------------------------------------------------------- setup script
\* scripts/setup: asks for the client id and secret, the scope and the
\* authorization code, exchanges the code and writes the .env file that
\* index.ts loads.

\* What .env may hold when the script starts: nothing (no file), the id and
\* secret only, or the Credential of an earlier run.
EnvFiles ==
    { NoEnv,
      [NoEnv EXCEPT !.STRAVA_CLIENT_ID = "client-id",
                    !.STRAVA_CLIENT_SECRET = "client-secret"],
      [STRAVA_CLIENT_ID |-> "old-id", STRAVA_CLIENT_SECRET |-> "old-secret",
       STRAVA_ACCESS_TOKEN |-> 0, STRAVA_REFRESH_TOKEN |-> 1,
       STRAVA_EXPIRES_AT |-> "300"] }

\* the three scopes of the scope prompt (any other answer takes the first)
SetupScopes ==
    { "read,activity:read",
      "read,activity:read_all,profile:read_all",
      "read,activity:read_all,activity:write,profile:read_all" }

\* expires_at values of the token response to the script
SetupExpires == {300, 302}

\* tokens.expires_at.toString()
NumberToString(n) ==
    IF n = 300 THEN "300" ELSE IF n = 302 THEN "302" ELSE "NaN"

\* the script is started
SetupInit ==
    /\ clientId = "client-id"
    /\ clientSecret = "client-secret"
    /\ tokens = NoTokens
    /\ calls = [c \in Calls |-> IdleCall]
    /\ now = 0
    /\ issued = 0
    /\ lastWrite = NoWrite
    /\ requests = [c \in Calls |-> IdleRequest]
    /\ server = NoServer
    /\ refreshHistory = "off"
    /\ process = NoProcess
    /\ tokenError = NoTokenError
    /\ \E file \in EnvFiles :
         setup = [pc |-> "start", file |-> file, existingEnv |-> NoEnv,
                  clientId |-> "", clientSecret |-> "", scope |-> "",
                  code |-> "", req |-> NoReq, response |-> NoResp,
                  env |-> NoEnv, exitCode |-> -1]

\* const existingEnv = await loadExistingEnv()
LoadExistingEnv ==
    /\ setup.pc = "start"
    /\ setup' = [setup EXCEPT !.pc = "prompt", !.existingEnv = setup.file]
    /\ UNCHANGED <<tokenError, process, refreshHistory, server, requests,
                   clientId, clientSecret, tokens, calls, now, issued,
                   lastWrite>>

\* main from the first prompt to the fetch of exchangeToken: the id and the
\* secret are the existing ones if there are any and the user keeps them,
\* else the ones typed in; then the scope and the code are asked for and
\* the token request is sent
PromptAndExchange(id, secret, scope, code) ==
    /\ setup.pc = "prompt"
    /\ \/ id = "client-id"
       \/ id = setup.existingEnv.STRAVA_CLIENT_ID /\ id # ""
    /\ \/ secret = "client-secret"
       \/ secret = setup.existingEnv.STRAVA_CLIENT_SECRET /\ secret # ""
    /\ setup' = [setup EXCEPT
                   !.pc = "fetch", !.clientId = id, !.clientSecret = secret,
                   !.scope = scope, !.code = code,
                   !.req = [grant_type |-> "authorization_code",
                            client_id |-> id, client_secret |-> secret,
                            code |-> code, refresh_token |-> -1]]
    /\ UNCHANGED <<tokenError, process, refreshHistory, server, requests,
                   clientId, clientSecret, tokens, calls, now, issued,
                   lastWrite>>

\* The token endpoint answers the script: a token pair or a non-2xx response.
SetupReply ==
    /\ setup.pc = "fetch"
    /\ \/ \E e \in SetupExpires :
            setup' = [setup EXCEPT
                        !.pc = "resp",
                        !.response = [status |-> 200,
                                      access_token |-> IssuedAccess(1),
                                      refresh_token |-> IssuedRefresh(1),
                                      expires_at |-> e]]
       \/ setup' = [setup EXCEPT !.pc = "resp",
                                 !.response = [NoResp EXCEPT !.status = 401]]
    /\ UNCHANGED <<tokenError, process, refreshHistory, server, requests,
                   clientId, clientSecret, tokens, calls, now, issued,
                   lastWrite>>

\* mutant: the id and the secret are saved before the response is looked at
ExchangeResumed_SavesFirst ==
    /\ setup.pc = "resp"
    /\ setup' =
         [setup EXCEPT
            !.pc = IF ResponseOk(setup.response) THEN "writing" ELSE "exited",
            !.exitCode = IF ResponseOk(setup.response) THEN @ ELSE 1,
            !.file = [@ EXCEPT !.STRAVA_CLIENT_ID = setup.clientId,
                               !.STRAVA_CLIENT_SECRET = setup.clientSecret],
            !.env = [STRAVA_CLIENT_ID |-> setup.clientId,
                     STRAVA_CLIENT_SECRET |-> setup.clientSecret,
                     STRAVA_ACCESS_TOKEN |-> setup.response.access_token,
                     STRAVA_REFRESH_TOKEN |-> setup.response.refresh_token,
                     STRAVA_EXPIRES_AT |->
                         NumberToString(setup.response.expires_at)]]
    /\ UNCHANGED <<tokenError, process, refreshHistory, server, requests,
                   clientId, clientSecret, tokens, calls, now, issued,
                   lastWrite>>

\* exchangeToken from the arrival of the response, and main after it: a
\* non-2xx response throws, the catch of main prints the error and calls
\* process.exit(1); else the tokens are the body and writeEnvFile is called
\* with them, up to its await of writeFile
ExchangeResumed ==
    /\ setup.pc = "resp"
    /\ setup' =
         IF ResponseOk(setup.response)
         THEN [setup EXCEPT
                 !.pc = "writing",
                 !.env = [STRAVA_CLIENT_ID |-> setup.clientId,
                          STRAVA_CLIENT_SECRET |-> setup.clientSecret,
                          STRAVA_ACCESS_TOKEN |-> setup.response.access_token,
                          STRAVA_REFRESH_TOKEN |-> setup.response.refresh_token,
                          STRAVA_EXPIRES_AT |->
                              NumberToString(setup.response.expires_at)]]
         ELSE [setup EXCEPT !.pc = "exited", !.exitCode = 1]
    /\ UNCHANGED <<tokenError, process, refreshHistory, server, requests,
                   clientId, clientSecret, tokens, calls, now, issued,
                   lastWrite>>

\* writeFile settles: the file holds the lines of writeEnvFile and main runs
\* to its end; or it rejects (the file as it was, or emptied by the open),
\* which the catch of main answers with process.exit(1)
WriteEnvFileSettles ==
    /\ setup.pc = "writing"
    /\ \/ setup' = [setup EXCEPT !.pc = "done", !.file = setup.env,
                                 !.exitCode = 0]
       \/ \E left \in {setup.file, NoEnv} :
            setup' = [setup EXCEPT !.pc = "exited", !.file = left,
                                   !.exitCode = 1]
    /\ UNCHANGED <<tokenError, process, refreshHistory, server, requests,
                   clientId, clientSecret, tokens, calls, now, issued,
                   lastWrite>>

SetupNext ==
    \/ LoadExistingEnv
    \/ \E id \in {"client-id", "old-id"},
          secret \in {"client-secret", "old-secret"},
          scope \in SetupScopes, code \in Codes :
         PromptAndExchange(id, secret, scope, code)
    \/ SetupReply
    \/ ExchangeResumed
    \/ WriteEnvFileSettles

SetupSpec == SetupInit /\ [][SetupNext]_vars

\* -------------------------------------------------------- sequential use
\* Every call is awaited before the next operation starts: an operation
\* begins only when no call chain is between its start and its result.
\* hasTokens does not await: it may run while a call waits for its response.
Quiet == \A c \in Calls : calls[c].pc = "idle"

SeqNext ==
    \/ Quiet /\ \E a \in SeedAccess, r \in SeedRefresh, e \in ExpiresValues : SetTokens(a, r, e)
    \/ Quiet /\ \E c \in Calls, code \in Codes : ExchangeCall(c, code)
    \/ \E c \in Calls : ExchangeResume(c)
    \/ Quiet /\ \E c \in Calls : RefreshCall(c)
    \/ \E c \in Calls : RefreshResume(c)
    \/ Quiet /\ \E c \in Calls : GetValidCall(c)
    \/ \E c \in Calls : GetValidResume(c)
    \/ \E c \in Calls : HasTokensCall(c)
    \/ \E c \in Calls : ServerReply(c)
    \/ \E c \in Calls : Finish(c)
    \/ Tick

SeqSpec == Init /\ [][SeqNext]_vars

\* ------------------------------------------------------- reading a step
\* call chains whose token-endpoint request is sent and not yet answered
Unanswered == {c \in Calls : calls[c].pc = "fetch"}
\* call chains with a token-endpoint exchange under way
InFlight == {c \in Calls : calls[c].pc \in {"fetch", "resp"}}
\* the step starts operation op in call chain c
Starts(c, op) == calls[c].pc = "idle" /\ calls'[c].pc # "idle" /\ calls'[c].op = op
\* the step is call chain c handling the response it received
Handles(c) == calls[c].pc = "resp" /\ calls'[c].pc # "resp"
\* the Credential a token response carries
CredentialOf(resp) ==
    [accessToken |-> resp.access_token, refreshToken |-> resp.refresh_token,
     expiresAt |-> resp.expires_at]

\* ================================================================ claims

\* C1 (as claimed): overlapping getValidAccessToken calls on an expiring
\* Credential never have two refresh requests in flight at once.
C1_SingleFlight ==
    Cardinality({c \in Unanswered : /\ calls[c].op = "getValid"
                                    /\ calls[c].req.grant_type = "refresh_token"}) <= 1

\* a field of the installed Credential holds a value
Present(v) == v # Undefined

\* the call time of the getValidAccessToken call that returns in this step
CallTimeOf(c) == IF calls[c].pc = "idle" THEN now ELSE calls[c].callTime
\* the step is getValidAccessToken of call chain c returning a token
ReturnsToken(c) ==
    calls[c].pc \in {"idle", "ret"} /\ calls'[c].pc = "done" /\ calls'[c].kind = "token"

C3_ValidTokenNoNetwork ==
    [][\A c \in Calls :
         (Starts(c, "getValid") /\ tokens # NoTokens
            /\ tokens.expiresAt > now + bufferTime) =>
           /\ calls'[c].pc = "done" /\ calls'[c].kind = "token"
           /\ calls'[c].retToken = tokens.accessToken
           /\ calls'[c].sent = 0 /\ calls'[c].req = NoReq
           /\ InFlight' = InFlight
           /\ tokens' = tokens /\ issued' = issued]_vars

\* C3 witness: a call returned the stored token without sending anything.
C3_ValidTokenWitness ==
    \E c \in Calls :
        /\ calls[c].op = "getValid" /\ calls[c].pc = "done"
        /\ calls[c].kind = "token" /\ calls[c].sent = 0
        /\ calls[c].retToken = tokens.accessToken
        /\ tokens.expiresAt > now + bufferTime

\* C4: with expires_at <= now + 300 (the boundary included) a
\* getValidAccessToken call sends one refresh request carrying the stored
\* refresh token; when that refresh succeeds the call has sent exactly one
\* request, returns the access token of its response, and the store holds
\* the response's Credential.  (Calls one at a time: SeqSpec.)
C4_ExpiringTokenRefreshed ==
    [][\A c \in Calls :
         /\ (Starts(c, "getValid") /\ tokens # NoTokens
               /\ tokens.expiresAt <= now + bufferTime) =>
              /\ calls'[c].pc = "fetch" /\ calls'[c].sent = 1
              /\ calls'[c].req.grant_type = "refresh_token"
              /\ calls'[c].req.refresh_token = tokens.refreshToken
              /\ Unanswered' = Unanswered \cup {c}
         /\ (calls[c].pc = "ret" /\ calls'[c].pc # "ret") =>
              /\ calls'[c].pc = "done" /\ calls'[c].kind = "token"
              /\ calls'[c].sent = 1
              /\ calls'[c].retToken = calls[c].resp.access_token
              /\ tokens' = CredentialOf(calls[c].resp)]_vars

\* C4 witness: a call has refreshed and returned the newly issued access
\* token, which the store now holds with the response's expires_at.
C4_RefreshedWitness ==
    \E c \in Calls :
        /\ calls[c].op = "getValid" /\ calls[c].pc = "done"
        /\ calls[c].kind = "token" /\ calls[c].sent = 1
        /\ issued = 1 /\ lastWrite.access_token = IssuedAccess(1)
        /\ calls[c].retToken = IssuedAccess(1)
        /\ tokens.accessToken = IssuedAccess(1)
        /\ tokens.expiresAt = bufferTime + MaxTime + 1

\* C5: a failed refresh leaves the three fields of the installed Credential
\* as they were and ends in the refresh error, with no Credential returned;
\* no other step of a call than handling a 2xx response changes the store.
C5_FailedRefreshKeepsCredential ==
    [][\A c \in Calls :
         /\ (Handles(c) /\ calls[c].op \in {"refresh", "getValid"}
               /\ ~ResponseOk(calls[c].resp)) =>
              /\ tokens' = tokens
              /\ calls'[c].pc = "done" /\ calls'[c].kind = "RefreshError"
              /\ calls'[c].value = NoTokens /\ calls'[c].retToken = -1
         /\ (calls'[c] # calls[c]
               /\ ~(calls[c].pc = "resp" /\ ResponseOk(calls[c].resp))) =>
              tokens' = tokens]_vars

\* C5 witness: a refresh has failed and the Credential is still installed.
C5_FailedRefreshWitness ==
    \E c \in Calls :
        /\ calls[c].op \in {"refresh", "getValid"} /\ calls[c].pc = "done"
        /\ calls[c].kind = "RefreshError" /\ calls[c].sent = 1
        /\ tokens # NoTokens

\* C6: a successful refresh replaces the three fields in one step by those of
\* one response and returns that Credential; in every state the installed
\* Credential is, field for field, the triple of the one response or
\* setTokens call that wrote it last.
C6_AtomicReplace ==
    /\ [](tokens = NoTokens \/
            /\ tokens.accessToken = lastWrite.access_token
            /\ tokens.refreshToken = lastWrite.refresh_token
            /\ tokens.expiresAt = lastWrite.expires_at)
    /\ [][\A c \in Calls :
            (Handles(c) /\ calls[c].op \in {"refresh", "getValid"}
               /\ ResponseOk(calls[c].resp)) =>
              /\ tokens' = CredentialOf(calls[c].resp)
              /\ (calls[c].op = "refresh" =>
                    /\ calls'[c].pc = "done" /\ calls'[c].kind = "credential"
                    /\ calls'[c].value = CredentialOf(calls[c].resp))]_vars

\* C6 witness: refreshAccessToken has returned the Credential it installed
\* over an earlier one.
C6_RefreshedWitness ==
    \E c \in Calls :
        /\ calls[c].op = "refresh" /\ calls[c].pc = "done"
        /\ calls[c].kind = "credential" /\ calls[c].value = tokens
        /\ tokens.accessToken = IssuedAccess(issued)
        /\ tokens.refreshToken = IssuedRefresh(issued)

\* C7: getValidAccessToken with no Credential installed fails with the
\* no-credential error in the same step, sends no request, and the store
\* stays Unauthenticated.
C7_GetValidWithoutCredential ==
    [][\A c \in Calls :
         (Starts(c, "getValid") /\ tokens = NoTokens) =>
           /\ calls'[c].pc = "done" /\ calls'[c].kind = "NoTokensError"
           /\ calls'[c].sent = 0 /\ calls'[c].req = NoReq
           /\ InFlight' = InFlight
           /\ tokens' = NoTokens /\ issued' = issued]_vars

\* C7 witness: getValidAccessToken has failed on an empty store.
C7_NoCredentialWitness ==
    \E c \in Calls :
        /\ calls[c].op = "getValid" /\ calls[c].pc = "done"
        /\ calls[c].kind = "NoTokensError" /\ tokens = NoTokens

\* C8: refreshAccessToken with no Credential installed fails with the
\* no-credential error in the same step and never sends a request; the store
\* stays Unauthenticated.
C8_RefreshWithoutCredential ==
    [][\A c \in Calls :
         (Starts(c, "refresh") /\ tokens = NoTokens) =>
           /\ calls'[c].pc = "done" /\ calls'[c].kind = "NoTokensError"
           /\ calls'[c].sent = 0 /\ calls'[c].req = NoReq
           /\ InFlight' = InFlight
           /\ tokens' = NoTokens /\ issued' = issued]_vars

\* C8 witness: refreshAccessToken has failed on an empty store.
C8_NoCredentialWitness ==
    \E c \in Calls :
        /\ calls[c].op = "refresh" /\ calls[c].pc = "done"
        /\ calls[c].kind = "NoTokensError" /\ tokens = NoTokens

\* C9: exchangeToken that receives a non-2xx response fails with the exchange
\* error and does not change the store, installed or Unauthenticated; nor
\* does sending its request.
C9_FailedExchangeKeepsStore ==
    [][\A c \in Calls :
         /\ (Handles(c) /\ calls[c].op = "exchange"
               /\ ~ResponseOk(calls[c].resp)) =>
              /\ tokens' = tokens
              /\ calls'[c].pc = "done" /\ calls'[c].kind = "ExchangeError"
              /\ calls'[c].value = NoTokens
         /\ Starts(c, "exchange") => tokens' = tokens]_vars

\* C9 witness: an exchange has failed and the Credential installed before it
\* is still there.
C9_FailedExchangeWitness ==
    \E c \in Calls :
        /\ calls[c].op = "exchange" /\ calls[c].pc = "done"
        /\ calls[c].kind = "ExchangeError" /\ tokens # NoTokens

\* C10: exchangeToken that receives a 2xx response installs the response's
\* Credential, over whatever the store held, and returns it; hasTokens is
\* true afterwards.
C10_ExchangeInstalls ==
    [][\A c \in Calls :
         (Handles(c) /\ calls[c].op = "exchange" /\ ResponseOk(calls[c].resp)) =>
           /\ tokens' = CredentialOf(calls[c].resp)
           /\ calls'[c].pc = "done" /\ calls'[c].kind = "credential"
           /\ calls'[c].value = CredentialOf(calls[c].resp)
           /\ hasTokens']_vars

\* C10 witness: an exchange has installed and returned the second Credential
\* the endpoint issued.
C10_ExchangeWitness ==
    \E c \in Calls :
        /\ calls[c].op = "exchange" /\ calls[c].pc = "done"
        /\ calls[c].kind = "credential" /\ calls[c].value = tokens
        /\ issued = 2 /\ tokens.accessToken = IssuedAccess(2)

\* C11 (as claimed): in every reachable state the store holds no Credential
\* or a Credential with access_token, refresh_token and expires_at all
\* present, whatever response the code accepted as a success.
C11_FullyPopulated ==
    tokens = NoTokens \/
      /\ Present(tokens.accessToken)
      /\ Present(tokens.refreshToken)
      /\ Present(tokens.expiresAt)

\* C12: the store starts Unauthenticated; a step takes it out of that state
\* only when it is setTokens or exchangeToken handling a 2xx response; no step
\* of any operation takes a store with a Credential back to Unauthenticated.
C12_NeverBackToUnauthenticated ==
    /\ ~hasTokens
    /\ [][/\ hasTokens => hasTokens'
          /\ (~hasTokens /\ hasTokens') =>
               \/ calls' = calls
               \/ \E c \in Calls :
                     /\ Handles(c) /\ calls[c].op = "exchange"
                     /\ ResponseOk(calls[c].resp)]_vars

\* C12 witness: the Credential an exchange installed into the empty store is
\* still installed after a refresh of it has failed.
C12_StillAuthenticatedWitness ==
    \E c \in Calls :
        /\ calls[c].pc = "done" /\ calls[c].kind = "RefreshError"
        /\ issued = 1 /\ lastWrite.access_token = IssuedAccess(1)
        /\ tokens.accessToken = IssuedAccess(1)

\* how far a call chain has come: every step of a call moves it forward
Rank == [idle |-> 0, fetch |-> 1, resp |-> 2, ret |-> 3, done |-> 4]

\* C13: a call of exchangeToken, refreshAccessToken or getValidAccessToken
\* sends at most one token-endpoint request, and only as it starts; handling
\* the response, 2xx or not, sends nothing more; every step of a call moves
\* it forward towards its end, where it has a result or an error.
C13_OneRequestPerCall ==
    /\ [](\A c \in Calls :
            /\ calls[c].sent \in {0, 1}
            /\ calls[c].pc \in {"fetch", "resp", "ret"} => calls[c].sent = 1
            /\ calls[c].pc = "done" =>
                 calls[c].kind \in {"credential", "token", "boolean",
                                    "NoTokensError", "RefreshError",
                                    "ExchangeError"})
    /\ [][\A c \in Calls :
            calls'[c] # calls[c] =>
              /\ calls'[c].sent > calls[c].sent => calls[c].pc = "idle"
              /\ calls[c].pc # "done" =>
                   Rank[calls'[c].pc] > Rank[calls[c].pc]
              /\ Handles(c) => Unanswered' = Unanswered]_vars

\* C13 witness: a getValidAccessToken call has ended in the refresh error
\* after a second Credential was issued, having sent one request.
C13_FailedAfterOneWitness ==
    \E c \in Calls :
        /\ calls[c].op = "getValid" /\ calls[c].pc = "done"
        /\ calls[c].kind = "RefreshError" /\ calls[c].sent = 1
        /\ issued = MaxIssue

\* C15: a setTokens step (a write of the store that is no call handling its
\* response) installs exactly the triple it was given, whatever the store
\* held, sends no request and touches no call chain nor the endpoint.
C15_SetTokensInstalls ==
    [][(lastWrite' # lastWrite /\ \A c \in Calls : ~Handles(c)) =>
         /\ tokens'.accessToken = lastWrite'.access_token
         /\ tokens'.refreshToken = lastWrite'.refresh_token
         /\ tokens'.expiresAt = lastWrite'.expires_at
         /\ tokens'.accessToken \in SeedAccess
         /\ tokens'.refreshToken \in SeedRefresh
         /\ tokens'.expiresAt \in ExpiresValues
         /\ calls' = calls /\ issued' = issued
         /\ clientId' = clientId /\ clientSecret' = clientSecret]_vars

\* C15 witness: setTokens has overwritten the Credential that the refresh of
\* a getValidAccessToken call, not yet resumed, had installed.
C15_OverwrittenWitness ==
    \E c \in Calls :
        /\ calls[c].pc = "ret"
        /\ tokens.accessToken \in SeedAccess
        /\ lastWrite.access_token \in SeedAccess

\* C16: hasTokens returns, in the step it is called, true exactly when a
\* Credential is installed, and changes nothing: the Credential, the client
\* identity, the requests in flight, every other call chain, the endpoint.
C16_HasTokensPureRead ==
    [][\A c \in Calls :
         Starts(c, "hasTokens") =>
           /\ calls'[c].pc = "done" /\ calls'[c].kind = "boolean"
           /\ calls'[c].flag = (tokens # NoTokens)
           /\ calls'[c].sent = 0 /\ calls'[c].req = NoReq
           /\ tokens' = tokens /\ lastWrite' = lastWrite
           /\ clientId' = clientId /\ clientSecret' = clientSecret
           /\ InFlight' = InFlight /\ Unanswered' = Unanswered
           /\ \A d \in Calls \ {c} : calls'[d] = calls[d]
           /\ issued' = issued /\ now' = now]_vars

\* C16 witness: hasTokens has returned true while a refresh request of
\* another call is in flight.
C16_TrueWhileInFlightWitness ==
    \E c, d \in Calls :
        /\ calls[c].op = "hasTokens" /\ calls[c].pc = "done"
        /\ calls[c].flag /\ tokens # NoTokens
        /\ calls[d].pc = "fetch"

\* C20 (as claimed): a getValidAccessToken call that has refreshed returns
\* the access_token of its own refresh response, also when another write of
\* the store comes between that response and the return.
C20_ReturnsOwnRefreshResult ==
    [][\A c \in Calls :
         (calls[c].pc = "ret" /\ calls'[c].pc = "done") =>
           calls'[c].retToken = calls[c].resp.access_token]_vars

\* C19 (as claimed): against an endpoint that rotates refresh tokens, every
\* refresh request in flight carries the refresh token the endpoint honours,
\* never one an earlier successful refresh has consumed, whatever the
\* interleaving of getValidAccessToken calls.
C19_NoConsumedRefreshToken ==
    \A c \in Unanswered :
        calls[c].req.grant_type = "refresh_token" =>
          calls[c].req.refresh_token = ServerRefreshToken

\* the step is request of call chain c sending its request to the remote API
SendsApi(c) == requests'[c].apiSent > requests[c].apiSent

\* C14: a request has called getValidAccessToken exactly once when it sends
\* to the remote API, that call had returned a token before the send, the
\* request is sent once, and its header is Authorization: Bearer <token> with
\* exactly the token returned.
C14_BearerOfReturnedToken ==
    /\ [](\A c \in Calls :
            /\ requests[c].tokenCalls <= 1 /\ requests[c].apiSent <= 1
            /\ requests[c].pc # "idle" => requests[c].tokenCalls = 1
            /\ requests[c].apiSent = 1 =>
                 /\ requests[c].Authorization.scheme = "Bearer"
                 /\ requests[c].Authorization.token = requests[c].accessToken)
    /\ [][\A c \in Calls :
            SendsApi(c) =>
              /\ calls[c].op = "getValid" /\ calls[c].pc = "done"
              /\ calls[c].kind = "token"
              /\ requests[c].tokenCalls = 1 /\ requests'[c].tokenCalls = 1
              /\ requests'[c].apiSent = 1
              /\ requests'[c].accessToken = calls[c].retToken
              /\ requests'[c].Authorization =
                   [scheme |-> "Bearer", token |-> calls[c].retToken]]_vars

\* C14 witness: a request is in flight to the remote API with the access
\* token that the refresh inside its getValidAccessToken call obtained.
C14_BearerAfterRefreshWitness ==
    \E c \in Calls :
        /\ calls[c].pc = "api" /\ requests[c].apiSent = 1
        /\ issued = 1
        /\ requests[c].Authorization =
             [scheme |-> "Bearer", token |-> IssuedAccess(1)]

\* C18: when the refresh inside getValidAccessToken gets a non-2xx response,
\* getValidAccessToken ends in the refresh error and returns no token; the
\* request that awaited it then ends in the same error, and has sent nothing
\* to the remote API.
C18_RefreshErrorStopsRequest ==
    /\ [](\A c \in Calls :
            requests[c].kind \in {"RefreshError", "NoTokensError"} =>
              /\ requests[c].apiSent = 0
              /\ requests[c].Authorization = NoHeader)
    /\ [][\A c \in Calls :
            /\ (Handles(c) /\ calls[c].op = "getValid"
                  /\ ~ResponseOk(calls[c].resp)) =>
                 /\ calls'[c].pc = "done" /\ calls'[c].kind = "RefreshError"
                 /\ calls'[c].retToken = -1
                 /\ requests'[c] = requests[c]
            /\ (calls[c].pc = "done" /\ calls[c].kind = "RefreshError"
                  /\ requests[c].pc = "token" /\ requests'[c] # requests[c]) =>
                 /\ requests'[c].pc = "done"
                 /\ requests'[c].kind = "RefreshError"
                 /\ requests'[c].apiSent = 0
                 /\ calls'[c].pc = "done"]_vars

\* C18 witness: a request has ended in the refresh error with the stale
\* Credential still installed and nothing sent to the remote API.
C18_RequestFailedWitness ==
    \E c \in Calls :
        /\ requests[c].pc = "done" /\ requests[c].kind = "RefreshError"
        /\ requests[c].apiSent = 0
        /\ tokens.accessToken \in SeedAccess
        /\ tokens.expiresAt <= now + bufferTime

\* The tool names of the README's "Available Tools": 8 activity, 3 athlete,
\* 2 route, 4 segment, 4 club, 1 gear.
ReadmeTools ==
    {"get_activities", "get_activity", "create_activity", "update_activity",
     "delete_activity", "get_activity_streams", "get_activity_comments",
     "get_activity_kudos",
     "get_athlete", "get_athlete_stats", "get_athlete_zones",
     "get_routes", "get_route",
     "get_starred_segments", "get_segment", "get_segment_leaderboard",
     "explore_segments",
     "get_athlete_clubs", "get_club", "get_club_members", "get_club_activities",
     "get_gear"}

\* the names of a ListTools response, and how many carry each name
NamesOf(tools) == {tools[i] : i \in 1..Len(tools)}
GroupSizes == <<8, 3, 2, 4, 4, 1>>

\* C17: the catalog built at startup and every ListTools response hold
\* exactly the 22 names of the README, each once and each with the tool of
\* the group that defines it, group by group in the counts 8, 3, 2, 4, 4, 1:
\* the merge of the six groups loses no name to a duplicate key.
C17_CatalogIsReadme ==
    /\ Cardinality(ReadmeTools) = 22
    /\ server.built =>
         /\ Len(server.allTools) = 22
         /\ NamesOf(ToolNames) = ReadmeTools
         /\ \A g \in 1..Len(ToolGroups) :
              /\ Len(ToolGroups[g]) = GroupSizes[g]
              /\ \A k \in 1..Len(ToolGroups[g]) :
                   \E i \in 1..Len(server.allTools) :
                     server.allTools[i] = [name |-> ToolGroups[g][k], group |-> g]
    /\ (server.handler = "ListTools" /\ server.pc = "done") =>
         /\ Len(server.tools) = 22
         /\ NamesOf(server.tools) = ReadmeTools
         /\ \A i, j \in 1..Len(server.tools) :
              server.tools[i] = server.tools[j] => i = j

\* C17 witness: the ListTools handler has answered, with get_gear the last
\* of its names.
C17_ListedWitness ==
    /\ server.handler = "ListTools" /\ server.pc = "done"
    /\ server.kind = "tools"
    /\ Len(server.tools) > 0
    /\ server.tools[Len(server.tools)] = "get_gear"

\* C21 (as claimed): when no operation is under way and the store holds a
\* Credential written by a token response, it is the Credential of the
\* endpoint's most recent successful response: a response issued earlier and
\* handled late has not overwritten a later one.
C21_LatestIssuedInstalled ==
    (Quiet /\ tokens # NoTokens /\ lastWrite.access_token \notin SeedAccess) =>
      /\ tokens.accessToken = IssuedAccess(issued)
      /\ tokens.refreshToken = IssuedRefresh(issued)

\* ------------------------------------------------ calls after a failure
\* Sequential use, with the history of failed refreshes kept.
RetryInit ==
    /\ clientId = "client-id"
    /\ clientSecret = "client-secret"
    /\ tokens = NoTokens
    /\ calls = [c \in Calls |-> IdleCall]
    /\ now = 0
    /\ issued = 0
    /\ lastWrite = NoWrite
    /\ requests = [c \in Calls |-> IdleRequest]
    /\ server = NoServer
    /\ refreshHistory = "none"
    /\ process = NoProcess
    /\ tokenError = NoTokenError
    /\ setup = NoSetup

RetrySpec == RetryInit /\ [][SeqNext]_vars

\* C22: once a refresh has failed the store still holds a Credential, the
\* failure itself having changed nothing of it; every getValidAccessToken call
\* made after it while the installed Credential has expires_at <= now + 300
\* sends one refresh request of its own, carrying the stored refresh token: it
\* neither returns the stale token nor fails without a request.
C22_RetriesAfterFailedRefresh ==
    /\ [](refreshHistory = "failed" => tokens # NoTokens)
    /\ [][\A c \in Calls :
            /\ (Handles(c) /\ calls[c].op \in {"refresh", "getValid"}
                  /\ ~ResponseOk(calls[c].resp)) =>
                 tokens' = tokens /\ refreshHistory' = "failed"
            /\ (refreshHistory = "failed" /\ Starts(c, "getValid")
                  /\ tokens.expiresAt <= now + bufferTime) =>
                 /\ calls'[c].pc = "fetch" /\ calls'[c].sent = 1
                 /\ calls'[c].kind = "none" /\ calls'[c].retToken = -1
                 /\ calls'[c].req.grant_type = "refresh_token"
                 /\ calls'[c].req.refresh_token = tokens.refreshToken
                 /\ Unanswered' = Unanswered \cup {c}
                 /\ tokens' = tokens]_vars

\* C22 witness: after a failed refresh, with the Credential loaded at startup
\* still installed and inside the buffer, a later getValidAccessToken call has
\* its refresh request in flight.
C22_RetryInFlightWitness ==
    \E c \in Calls :
        /\ refreshHistory = "failed"
        /\ calls[c].op = "getValid" /\ calls[c].pc = "fetch"
        /\ calls[c].sent = 1
        /\ tokens.accessToken \in SeedAccess /\ issued = 0
        /\ tokens.expiresAt <= now + bufferTime

\* C23: a request to the token endpoint is sent only by the step that starts
\* an exchangeToken, refreshAccessToken or getValidAccessToken call, for that
\* call; a step of the clock, also one that takes the installed Credential
\* into the refresh buffer, changes no call chain, sends nothing and leaves
\* the Credential and the endpoint as they were.
C23_DemandDriven ==
    [][/\ \A c \in Calls :
            (c \in Unanswered' /\ c \notin Unanswered) =>
              /\ calls[c].pc = "idle"
              /\ calls'[c].op \in {"exchange", "refresh", "getValid"}
              /\ calls'[c].sent = 1
              /\ now' = now
       /\ now' # now =>
            /\ calls' = calls /\ tokens' = tokens
            /\ lastWrite' = lastWrite /\ issued' = issued]_vars

\* C23 witness: the clock has taken the Credential loaded at startup, valid
\* at time 0, into the refresh buffer, and no call is under way.
C23_ExpiredUnattendedWitness ==
    /\ now > 0 /\ Quiet /\ issued = 0
    /\ tokens # NoTokens
    /\ tokens.expiresAt > bufferTime
    /\ tokens.expiresAt <= now + bufferTime

\* C24: the client identity is the pair given at construction in every state;
\* the step that sends a refresh request sends grant_type refresh_token, that
\* identity and the refresh_token of the Credential installed at that moment;
\* the step that sends an exchange request sends grant_type
\* authorization_code, that identity and the code it was given.
C24_RequestBodies ==
    /\ [](clientId = "client-id" /\ clientSecret = "client-secret")
    /\ [][\A c \in Calls :
            (c \in Unanswered' /\ c \notin Unanswered) =>
              IF calls'[c].op = "exchange"
              THEN \E code \in Codes :
                     calls'[c].req =
                       [grant_type |-> "authorization_code",
                        client_id |-> "client-id",
                        client_secret |-> "client-secret",
                        code |-> code, refresh_token |-> -1]
              ELSE /\ tokens # NoTokens
                   /\ calls'[c].req =
                        [grant_type |-> "refresh_token",
                         client_id |-> "client-id",
                         client_secret |-> "client-secret",
                         code |-> "", refresh_token |-> tokens.refreshToken]]_vars

\* C24 witness: a refresh request in flight carries the refresh token that an
\* earlier response issued and the store installed.
C24_RotatedTokenSentWitness ==
    \E c \in Unanswered :
        /\ calls[c].req.grant_type = "refresh_token"
        /\ calls[c].req.refresh_token = IssuedRefresh(1)
        /\ tokens.refreshToken = IssuedRefresh(1)
        /\ calls[c].req.client_id = clientId

\* C25 (as claimed): a process started with a client id and a client secret
\* but without a complete token triple in its environment does not exit: it
\* goes on, Unauthenticated, to serve.
C25_StartsUnauthenticated ==
    (/\ process.env.STRAVA_CLIENT_ID # ""
     /\ process.env.STRAVA_CLIENT_SECRET # ""
     /\ \/ process.env.STRAVA_ACCESS_TOKEN = Undefined
        \/ process.env.STRAVA_REFRESH_TOKEN = Undefined
        \/ process.env.STRAVA_EXPIRES_AT = "") =>
      process.pc # "exited"
\* C26: for a non-2xx response from the token endpoint, the error raised by
\* exchangeToken and refreshAccessToken carries the body's message field
\* when the body is parseable JSON with a non-empty message, and the
\* transport status text in every other case (unparseable body, missing or
\* empty message).
C26_MessageElseStatusText ==
    tokenError.pc = "thrown" =>
      /\ tokenError.thrown.name = "Error"
      /\ tokenError.thrown.prefix = ErrorPrefix(tokenError.op)
      /\ tokenError.thrown.detail =
           IF /\ tokenError.body.json
              /\ tokenError.body.value.type = "object"
              /\ tokenError.body.value.hasMessage
              /\ tokenError.body.value.message # ""
           THEN tokenError.body.value.message
           ELSE tokenError.statusText

\* C27 (as claimed): in the CallTool handler, a request naming a tool that
\* is not in the catalog fails with an unknown-tool error and invokes no
\* tool handler; for a known tool the arguments are validated against its
\* schema before the handler runs, and a validation failure ends the
\* request with an error without invoking the handler, without calling
\* getValidAccessToken and without sending any API request.
C27_UnknownToolOrValidated ==
    [][(server.pc = "idle" /\ server'.handler = "CallTool") =>
         /\ server'.toolName \notin NamesOf(ToolNames) =>
              /\ server'.pc = "done"
              /\ server'.kind = "UnknownTool"
         /\ (server'.toolName \in NamesOf(ToolNames)
               /\ server'.arguments # "valid") =>
              /\ server'.pc = "done"
              /\ server'.kind = "ToolExecutionFailed"
              /\ calls' = calls
              /\ requests' = requests
         /\ server'.pc = "handler" => server'.arguments = "valid"]_vars
C29_EnvWrittenAfterExchange ==
    /\ setup.pc \in {"prompt", "fetch", "resp"} =>
         setup.file = setup.existingEnv
    /\ ~ResponseOk(setup.response) => setup.pc \notin {"writing", "done"}
    /\ (setup.pc = "exited" /\ ~ResponseOk(setup.response)) =>
         /\ setup.file = setup.existingEnv
         /\ setup.exitCode = 1
    /\ setup.pc = "done" =>
         /\ ResponseOk(setup.response)
         /\ setup.file.STRAVA_CLIENT_ID = setup.req.client_id
         /\ setup.file.STRAVA_CLIENT_SECRET = setup.req.client_secret
         /\ setup.file.STRAVA_ACCESS_TOKEN = setup.response.access_token
         /\ setup.file.STRAVA_REFRESH_TOKEN = setup.response.refresh_token
         /\ ParseInt(setup.file.STRAVA_EXPIRES_AT) = setup.response.expires_at
         /\ setup.exitCode = 0

\* the exchange was refused while .env held the Credential of an earlier
\* run: the script has exited with 1 and the file is as it was
C29_RefusedKeepsOldFileWitness ==
    /\ setup.pc = "exited"
    /\ setup.response.status = 401
    /\ setup.exitCode = 1
    /\ setup.existingEnv.STRAVA_ACCESS_TOKEN = 0
    /\ setup.clientId = "client-id"
    /\ setup.file = setup.existingEnv

====
